---- MODULE Spec2Model ----
(***************************************************************************)
(* Model of the pawg-audio processing pipeline: the ProcessingManager      *)
(* (src/processing/manager.py), the retrying BaseWorker                    *)
(* (src/processing/workers/base_worker.py) with its three stage            *)
(* specializations, and the token-bucket RateLimiter                       *)
(* (src/processing/utils/rate_limiter.py).                                 *)
(*                                                                         *)
(* The pipeline runs on one asyncio event loop: code between two await     *)
(* points that actually suspend runs atomically, so every action below is  *)
(* one such uninterrupted run of one task.                                 *)
(***************************************************************************)
EXTENDS Bags, FiniteSets, Integers, Sequences, TLC

(***************************************************************************)
(* Bounds of the model.                                                    *)
(***************************************************************************)
NumEpisodes == 1
MaxQueue == 2
MaxFaults == 1
BacklogEpisodes == 2
BacklogQueue == 3
PoolEpisodes == 3
PoolWorkers == 2
MaxClock == 1
RateLimit == 5
RLCallers == 1
MaxTime == 13
StageWorkers == 2
StageTime == 1
RetryEpisodes == 1
RetryFaults == 4
PriorityEpisodes == 3
PersistedRetries == 1
PriorityQueue == 4
ProcessEpisodes == 1
ProcessFaults == 1
ProcessTime == 1
MaxValue == 1
MaxCount == 2
MetricsTime == 1
MaxConfigRetries == 4
MaxConfigDelay == 5
PassEpisodes == 1
PassFaults == 2
PassQueue == 2
MaxProcessed == 4
SharedCallers == 2
SharedLimit == 2
SharedTime == 4

(***************************************************************************)
(* Program constants.                                                      *)
(***************************************************************************)
ConfigMaxRetries == 3
WorkerMaxRetries == 3
BatchLimit == 100
TimeWindow == 60
RetryPenaltyHours == 24
RetryDelay == 5
ConfigRetryDelay == 5

Stages == {"download", "transcribe", "analyze"}

\* The two periodic loops start() creates next to the worker loops.
Loops == {"_manage_queues", "_collect_metrics"}

\* Names callers give to gauges and counters.
MetricNames == {"a", "b", "uptime"}

\* A ProcessingConfig with the given worker counts and the defaults of the
\* dataclass for its retry options.
Config(nd, nt, na) ==
    [num_download_workers |-> nd, num_transcribe_workers |-> nt,
     num_analyze_workers |-> na, max_retries |-> ConfigMaxRetries,
     retry_delay |-> ConfigRetryDelay]

NumWorkers(cfg, s) ==
    CASE s = "download" -> cfg.num_download_workers
      [] s = "transcribe" -> cfg.num_transcribe_workers
      [] s = "analyze" -> cfg.num_analyze_workers

\* __init__: one worker object per configured worker of a stage.
WorkersOf(cfg) == {w \in Stages \X (1..3) : w[2] <= NumWorkers(cfg, w[1])}

StageOf(w) == w[1]

\* Age in whole hours of episode e at the time the manager is constructed.
PublishAge(e) == IF e = 1 THEN 10 ELSE 1

VARIABLES
    is_running,       \* ProcessingManager.is_running
    start_time,       \* TRUE once ProcessingManager.start_time is set
    total_processed,  \* ProcessingManager.total_processed
    queues,           \* stage -> bag of <<priority, episode id>>
    unfinished,       \* stage -> asyncio.Queue._unfinished_tasks
    active,           \* stage -> active_downloads / _transcriptions / _analyses
    status,           \* episode id -> ProcessingStatus row (session state)
    pc,               \* worker -> position in _run_*_worker / process
    cur,              \* worker -> episode_id it popped (0: none)
    retries,          \* worker -> local `retries` of process()
    mq_pc,            \* position of the _manage_queues task
    stop_pc,          \* position of the stop() call
    clock,            \* whole hours elapsed, as last read by a pass
    faults,           \* failures the external collaborators may still produce
    stop_backlog,     \* history: queued items when stop() was called (-1: not yet)
    failed_tasks,     \* ProcessingManager.failed_tasks, as <<episode id, stage>>
    last_return,      \* history: worker -> what its last process() returned
    delay,            \* worker -> local `delay` of process() while it sleeps
    config,           \* ProcessingManager.config, the ProcessingConfig
    episodes,         \* ids of the Episode rows of the store
    pass_history,     \* history: loop -> "failed" once a pass of it raised,
                      \*          "recovered" once a later pass completed
    cm_pc,            \* position of the _collect_metrics task
    last_call,        \* history: worker -> episode_id of its last direct call
    _metrics,         \* MetricsCollector._metrics: name -> value
    _counters,        \* MetricsCollector._counters: name -> count
    _start_time,      \* MetricsCollector._start_time
    rate_limiter,     \* caller -> the RateLimiter object it holds
    limiters,         \* RateLimiter object -> its fields
    mono,             \* time.monotonic(), in seconds
    rl_pc,            \* caller -> position in acquire()
    grants            \* history: RateLimiter -> times at which acquire() returned

vars == <<is_running, start_time, total_processed, queues, unfinished, active,
          status, pc, cur, retries, mq_pc, stop_pc, clock, faults,
          stop_backlog, failed_tasks, last_return, delay,
          config, episodes, pass_history, cm_pc, last_call,
          _metrics, _counters, _start_time,
          rate_limiter, limiters, mono, rl_pc, grants>>

\* The variables of the rate limiters.
rlvars == <<rate_limiter, limiters, mono, rl_pc, grants>>

\* The variables of the manager, its workers and the store.
pvars == <<is_running, start_time, total_processed, queues, unfinished, active,
           status, pc, cur, retries, mq_pc, stop_pc, clock, faults,
           stop_backlog, failed_tasks, last_return, delay>>

\* The configuration, the extent of the store, the scheduling loops and the
\* callers of process() other than the worker loops.
cvars == <<config, episodes, pass_history, cm_pc, last_call>>

\* The variables of the MetricsCollector.
mvars == <<_metrics, _counters, _start_time>>

\* What the worker loops and passes leave alone unless stated.
hvars == <<failed_tasks, last_return, delay>>

\* The Episode rows of the store and the workers of the manager.
Episodes == DOMAIN status
Workers == DOMAIN pc

download_queue == queues["download"]
transcribe_queue == queues["transcribe"]
analyze_queue == queues["analyze"]
active_downloads == active["download"]
active_transcriptions == active["transcribe"]
active_analyses == active["analyze"]

\* A worker whose process() has not returned yet.
NoReturn == "none"

\* Positions of a worker task at which it is inside worker.process().
InProcess == {"exec", "backoff"}

(***************************************************************************)
(* ProcessingStatus                                                        *)
(***************************************************************************)
\* The row of an episode that completed its first n stages in an earlier run
\* (n = 0: the column defaults).
PersistedStatus(n) ==
    LET done == CASE n = 0 -> {}
                  [] n = 1 -> {"download"}
                  [] n = 2 -> {"download", "transcribe"}
                  [] n = 3 -> Stages
    IN [is_downloaded |-> n >= 1, is_transcribed |-> n >= 2,
        is_analyzed |-> n >= 3, retry_count |-> 0, error_message |-> FALSE,
        started_at |-> done, completed_at |-> done]

\* The row of an undownloaded episode whose download failed r times in an
\* earlier run.
FailedStatus(r) ==
    [PersistedStatus(0) EXCEPT
        !.retry_count = r,
        !.error_message = r > 0,
        !.started_at = IF r > 0 THEN {"download"} ELSE {}]

\* The stage flag a worker of stage s writes.
Flag(st, s) ==
    CASE s = "download" -> st.is_downloaded
      [] s = "transcribe" -> st.is_transcribed
      [] s = "analyze" -> st.is_analyzed

SetFlag(st, s) ==
    CASE s = "download" -> [st EXCEPT !.is_downloaded = TRUE]
      [] s = "transcribe" -> [st EXCEPT !.is_transcribed = TRUE]
      [] s = "analyze" -> [st EXCEPT !.is_analyzed = TRUE]

\* The check at the head of TranscribeWorker / AnalyzeWorker._process_episode.
Precondition(st, s) ==
    CASE s = "download" -> TRUE
      [] s = "transcribe" -> st.is_downloaded
      [] s = "analyze" -> st.is_transcribed

(***************************************************************************)
(* Priority queues                                                         *)
(***************************************************************************)
TupleLess(a, b) == a[1] < b[1] \/ (a[1] = b[1] /\ a[2] < b[2])

\* A queue that hands out the largest (priority, id): what the dequeue
\* order must rule out.
QMax(q) ==
    CHOOSE x \in BagToSet(q) : \A y \in BagToSet(q) : x = y \/ TupleLess(y, x)

\* The entry PriorityQueue.get() returns: the smallest (priority, id).
QMin(q) ==
    CHOOSE x \in BagToSet(q) : \A y \in BagToSet(q) : x = y \/ TupleLess(x, y)

QIds(q) == {x[2] : x \in BagToSet(q)}

QCount(q, e) ==
    BagCardinality([x \in {y \in BagToSet(q) : y[2] = e} |-> q[x]])

(***************************************************************************)
(* _manage_queues                                                          *)
(***************************************************************************)
AgeHours(e, now) == PublishAge(e) + now

\* A score without the penalty per retry: what the score formula must rule
\* out.
PriorityWithoutPenalty(e, now) == AgeHours(e, now)

Priority(e, now) == AgeHours(e, now) + status[e].retry_count * RetryPenaltyHours

\* A filter whose first branch does not read retry_count: what the
\* exclusion of exhausted episodes must rule out.
NeedsWorkAnyRetries(st) ==
    \/ ~st.is_downloaded
    \/ st.is_downloaded /\ ~st.is_transcribed /\ st.retry_count < config.max_retries
    \/ st.is_transcribed /\ ~st.is_analyzed /\ st.retry_count < config.max_retries

\* The filter of the query.
NeedsWork(st) ==
    \/ ~st.is_downloaded /\ st.retry_count < config.max_retries
    \/ st.is_downloaded /\ ~st.is_transcribed /\ st.retry_count < config.max_retries
    \/ st.is_transcribed /\ ~st.is_analyzed /\ st.retry_count < config.max_retries

\* order_by(publish_date.desc()): f comes before e (ties: by id).
Newer(f, e) ==
    \/ PublishAge(f) < PublishAge(e)
    \/ PublishAge(f) = PublishAge(e) /\ f < e

\* .limit(100).all()
Unprocessed ==
    LET eligible == {e \in Episodes : NeedsWork(status[e])}
    IN {e \in eligible :
            Cardinality({f \in eligible : Newer(f, e)}) < BatchLimit}

\* A pass whose first branch does not read is_downloaded: what the
\* stage progression must rule out.
TargetQueueIgnoresFlag(e) ==
    LET st == status[e]
    IN IF e \notin active["download"]
         THEN "download"
       ELSE IF st.is_downloaded /\ ~st.is_transcribed
               /\ e \notin active["transcribe"]
         THEN "transcribe"
       ELSE IF st.is_transcribed /\ ~st.is_analyzed
               /\ e \notin active["analyze"]
         THEN "analyze"
       ELSE "none"

\* The if / elif / elif chain of the pass: the queue episode e is put on.
TargetQueue(e) ==
    LET st == status[e]
    IN IF ~st.is_downloaded /\ e \notin active["download"]
         THEN "download"
       ELSE IF st.is_downloaded /\ ~st.is_transcribed
               /\ e \notin active["transcribe"]
         THEN "transcribe"
       ELSE IF st.is_transcribed /\ ~st.is_analyzed
               /\ e \notin active["analyze"]
         THEN "analyze"
       ELSE "none"

Puts(s, now) ==
    {<<Priority(e, now), e>> : e \in {f \in Unprocessed : TargetQueue(f) = s}}

\* One pass of the while loop: the query, the puts, then the sleep.  `now`
\* is the time utcnow() returns.  put() on an unbounded queue does not
\* suspend, so the pass is atomic; a getter it wakes runs before the sleep
\* of the loop expires.
\* A pass of loop l completed: the bookkeeping of the passes.
Completed(l) ==
    pass_history' = [pass_history EXCEPT
                        ![l] = IF @ = "failed" THEN "recovered" ELSE @]

\* A pass of loop l raised.
Failed(l) == pass_history' = [pass_history EXCEPT ![l] = "failed"]

\* A pass that scores the queued entries anew before it adds its own: what
\* the fixing of the score at enqueue time must rule out.
ManageQueuesRescores(now, qmax) ==
    /\ mq_pc = "loop"
    /\ is_running
    /\ \A w \in Workers :
          /\ pc[w] # "top"
          /\ pc[w] = "waiting" => queues[StageOf(w)] = EmptyBag
    /\ \A s \in Stages :
          BagCardinality(queues[s]) + Cardinality(Puts(s, now)) <= qmax
    /\ queues' =
          [s \in Stages |->
              SetToBag({<<Priority(x[2], now), x[2]>> :
                           x \in BagToSet(queues[s])})
                  (+) SetToBag(Puts(s, now))]
    /\ unfinished' =
          [s \in Stages |-> unfinished[s] + Cardinality(Puts(s, now))]
    /\ clock' = now
    /\ Completed("_manage_queues")
    /\ UNCHANGED <<is_running, start_time, total_processed, active, status,
                   pc, cur, retries, mq_pc, stop_pc, faults, stop_backlog,
                   hvars, rlvars, config, episodes, cm_pc, last_call, mvars>>

\* A pass that clears the error_message of the episodes it enqueues: what
\* the read-only use of the status by the pass must rule out.
ManageQueuesClearsError(now, qmax) ==
    /\ mq_pc = "loop"
    /\ is_running
    /\ \A w \in Workers :
          /\ pc[w] # "top"
          /\ pc[w] = "waiting" => queues[StageOf(w)] = EmptyBag
    /\ \A s \in Stages :
          BagCardinality(queues[s]) + Cardinality(Puts(s, now)) <= qmax
    /\ queues' = [s \in Stages |-> queues[s] (+) SetToBag(Puts(s, now))]
    /\ unfinished' =
          [s \in Stages |-> unfinished[s] + Cardinality(Puts(s, now))]
    /\ status' = [e \in Episodes |->
                     IF e \in Unprocessed /\ TargetQueue(e) # "none"
                       THEN [status[e] EXCEPT !.error_message = FALSE]
                       ELSE status[e]]
    /\ clock' = now
    /\ Completed("_manage_queues")
    /\ UNCHANGED <<is_running, start_time, total_processed, active,
                   pc, cur, retries, mq_pc, stop_pc, faults, stop_backlog,
                   hvars, rlvars, config, episodes, cm_pc, last_call, mvars>>

ManageQueues(now, qmax) ==
    /\ mq_pc = "loop"
    /\ is_running
    /\ \A w \in Workers :
          /\ pc[w] # "top"
          /\ pc[w] = "waiting" => queues[StageOf(w)] = EmptyBag
    /\ \A s \in Stages :
          BagCardinality(queues[s]) + Cardinality(Puts(s, now)) <= qmax
    /\ queues' = [s \in Stages |-> queues[s] (+) SetToBag(Puts(s, now))]
    /\ unfinished' =
          [s \in Stages |-> unfinished[s] + Cardinality(Puts(s, now))]
    /\ clock' = now
    /\ Completed("_manage_queues")
    /\ UNCHANGED <<is_running, start_time, total_processed, active, status,
                   pc, cur, retries, mq_pc, stop_pc, faults, stop_backlog,
                   hvars, rlvars, config, episodes, cm_pc, last_call, mvars>>

\* A pass whose exception leaves the loop and ends the task: what the
\* handler of the pass must rule out.
ManageQueuesRaisesExits ==
    /\ mq_pc = "loop"
    /\ is_running
    /\ faults > 0
    /\ faults' = faults - 1
    /\ mq_pc' = "exited"
    /\ Failed("_manage_queues")
    /\ UNCHANGED <<is_running, start_time, total_processed, queues, unfinished,
                   active, status, pc, cur, retries, stop_pc, clock,
                   stop_backlog, hvars, rlvars, config, episodes, cm_pc,
                   last_call, mvars>>

\* One pass in which the query raises: the handler logs the error and the
\* loop goes on to its sleep.
ManageQueuesRaises ==
    /\ mq_pc = "loop"
    /\ is_running
    /\ faults > 0
    /\ faults' = faults - 1
    /\ Failed("_manage_queues")
    /\ UNCHANGED <<is_running, start_time, total_processed, queues, unfinished,
                   active, status, pc, cur, retries, mq_pc, stop_pc, clock,
                   stop_backlog, hvars, rlvars, config, episodes, cm_pc,
                   last_call, mvars>>

\* The loop condition fails after stop().
ManageQueuesExit ==
    /\ mq_pc = "loop"
    /\ ~is_running
    /\ mq_pc' = "exited"
    /\ UNCHANGED <<is_running, start_time, total_processed, queues, unfinished,
                   active, status, pc, cur, retries, stop_pc, clock, faults,
                      stop_backlog, hvars, rlvars, cvars, mvars>>

(***************************************************************************)
(* start / stop                                                            *)
(***************************************************************************)
\* start() is called once on a manager.
Start ==
    /\ ~is_running
    /\ ~start_time
    /\ is_running' = TRUE
    /\ start_time' = TRUE
    /\ pc' = [w \in Workers |-> "top"]
    /\ mq_pc' = "loop"
    /\ cm_pc' = "loop"
    /\ UNCHANGED <<total_processed, queues, unfinished, active, status, cur,
                   retries, stop_pc, clock, faults, stop_backlog, hvars,
                   rlvars, config, episodes, pass_history, last_call, mvars>>

NextJoin(s) ==
    CASE s = "download" -> "transcribe"
      [] s = "transcribe" -> "analyze"
      [] s = "analyze" -> "returned"

\* stop() up to its first join; it is called once, on a started manager.
Stop ==
    /\ start_time
    /\ stop_pc = "none"
    /\ is_running' = FALSE
    /\ stop_pc' = "download"
    /\ stop_backlog' = BagCardinality(queues["download"])
                        + BagCardinality(queues["transcribe"])
                        + BagCardinality(queues["analyze"])
    /\ UNCHANGED <<start_time, total_processed, queues, unfinished, active,
                   status, pc, cur, retries, mq_pc, clock, faults, hvars, rlvars, cvars, mvars>>

\* A stop() that waits for the queue to be empty (qsize() = 0) instead of
\* join(): what the drain guarantee must rule out.
StopJoinOnEmpty(s) ==
    /\ stop_pc = s
    /\ queues[s] = EmptyBag
    /\ stop_pc' = NextJoin(s)
    /\ UNCHANGED <<is_running, start_time, total_processed, queues, unfinished,
                   active, status, pc, cur, retries, mq_pc, clock, faults,
                      stop_backlog, hvars, rlvars, cvars, mvars>>

\* await self.<s>_queue.join() returns; after the last join the final
\* _collect_metrics() finds is_running false and stop() returns.
StopJoin(s) ==
    /\ stop_pc = s
    /\ unfinished[s] = 0
    /\ stop_pc' = NextJoin(s)
    /\ UNCHANGED <<is_running, start_time, total_processed, queues, unfinished,
                   active, status, pc, cur, retries, mq_pc, clock, faults,
                      stop_backlog, hvars, rlvars, cvars, mvars>>

(***************************************************************************)
(* _run_download_worker / _run_transcribe_worker / _run_analyze_worker     *)
(***************************************************************************)
\* `while self.is_running:` followed by the call of queue.get(), when the
\* task first runs and after the asyncio.sleep(1) of the outer handler.
WorkerLoop(w) ==
    /\ pc[w] \in {"top", "loop_sleep"}
    /\ pc' = [pc EXCEPT ![w] = IF is_running THEN "waiting" ELSE "exited"]
    /\ UNCHANGED <<is_running, start_time, total_processed, queues, unfinished,
                   active, status, cur, retries, mq_pc, stop_pc, clock, faults,
                      stop_backlog, hvars, rlvars, cvars, mvars>>

\* queue.get() returns; active.add(); process() up to rate_limiter.acquire().
Pop(w) ==
    LET s == StageOf(w)
        item == QMin(queues[s])
        e == item[2]
    IN /\ pc[w] = "waiting"
       /\ queues[s] # EmptyBag
       /\ queues' = [queues EXCEPT ![s] = @ (-) SetToBag({item})]
       /\ active' = [active EXCEPT ![s] = @ \cup {e}]
       /\ status' = [status EXCEPT ![e].started_at = @ \cup {s}]
       /\ cur' = [cur EXCEPT ![w] = e]
       /\ retries' = [retries EXCEPT ![w] = 0]
       /\ pc' = [pc EXCEPT ![w] = "exec"]
       /\ last_return' = [last_return EXCEPT ![w] = NoReturn]
       /\ UNCHANGED <<is_running, start_time, total_processed, unfinished,
                      mq_pc, stop_pc, clock, faults, stop_backlog,
                      failed_tasks, delay, rlvars, cvars, mvars>>

\* process() has returned (true or false) to the worker loop:
\* total_processed += 1, active.remove(), task_done().  remove() raises
\* KeyError when the id is no longer in the set; the outer handler then
\* sleeps one second and task_done() is skipped.
Finish(w) ==
    LET s == StageOf(w)
        e == cur[w]
    IN /\ total_processed' = total_processed + 1
       /\ IF e \in active[s]
            THEN /\ active' = [active EXCEPT ![s] = @ \ {e}]
                 /\ unfinished' = [unfinished EXCEPT ![s] = @ - 1]
                 /\ pc' = [pc EXCEPT ![w] =
                                     IF is_running THEN "waiting" ELSE "exited"]
            ELSE /\ pc' = [pc EXCEPT ![w] = "loop_sleep"]
                 /\ UNCHANGED <<active, unfinished>>
       /\ cur' = [cur EXCEPT ![w] = 0]
       /\ retries' = [retries EXCEPT ![w] = 0]

\* process() has returned to a caller other than a worker loop.
ReturnToCaller(w) ==
    /\ pc' = [pc EXCEPT ![w] = "init"]
    /\ cur' = [cur EXCEPT ![w] = 0]
    /\ retries' = [retries EXCEPT ![w] = 0]
    /\ UNCHANGED <<total_processed, active, unfinished>>

\* The worker loops exist once start() has created them; before that a
\* process() call was made directly on the worker.
Return(w) == IF start_time THEN Finish(w) ELSE ReturnToCaller(w)

\* `return True` / `return False` of process().
Returned(w, value) ==
    last_return' = [last_return EXCEPT ![w] = value]

\* A success that also clears the failure count of the row: what the
\* monotonicity of retry_count must rule out.
AttemptSucceedsResetsRetries(w) ==
    LET s == StageOf(w)
        e == cur[w]
    IN /\ pc[w] = "exec"
       /\ Precondition(status[e], s)
       /\ status' = [status EXCEPT
                        ![e] = [SetFlag(@, s) EXCEPT
                                   !.completed_at = @ \cup {s},
                                   !.retry_count = 0]]
       /\ Return(w)
       /\ Returned(w, "true")
       /\ UNCHANGED <<is_running, start_time, queues, mq_pc, stop_pc, clock,
                      faults, stop_backlog, failed_tasks, delay, cvars, mvars>>

\* The action reported success: flag set, completion time, commit, return.
AttemptSucceeds(w) ==
    LET s == StageOf(w)
        e == cur[w]
    IN /\ pc[w] = "exec"
       /\ Precondition(status[e], s)
       /\ status' = [status EXCEPT
                        ![e] = [SetFlag(@, s) EXCEPT
                                   !.completed_at = @ \cup {s}]]
       /\ Return(w)
       /\ Returned(w, "true")
       /\ UNCHANGED <<is_running, start_time, queues, mq_pc, stop_pc, clock,
                      faults, stop_backlog, failed_tasks, delay, cvars, mvars>>

\* The same in a worker loop, where acquire() is taken to return in time.
ActionSucceeds(w) == AttemptSucceeds(w) /\ UNCHANGED rlvars

\* The action returned False (precondition unmet, or HTTP status not 200):
\* no exception, so only `retries += 1`.
AttemptReturnsFalse(w) ==
    LET s == StageOf(w)
        e == cur[w]
    IN /\ pc[w] = "exec"
       /\ \/ ~Precondition(status[e], s) /\ UNCHANGED faults
          \/ /\ s = "download"
             /\ faults > 0
             /\ faults' = faults - 1
       /\ IF retries[w] + 1 <= WorkerMaxRetries
            THEN /\ retries' = [retries EXCEPT ![w] = @ + 1]
                 /\ pc' = [pc EXCEPT ![w] = "exec"]
                 /\ UNCHANGED <<total_processed, active, unfinished, cur,
                                last_return>>
            ELSE Return(w) /\ Returned(w, "false")
       /\ UNCHANGED <<is_running, start_time, queues, status, mq_pc, stop_pc,
                      clock, stop_backlog, failed_tasks, delay, cvars, mvars>>

\* The same in a worker loop, where acquire() is taken to return in time.
ActionReturnsFalse(w) == AttemptReturnsFalse(w) /\ UNCHANGED rlvars

\* Episodes whose audio_url answers a status other than 200 to every
\* request: all but the oldest.
DeadLink(e) == e > 1

\* The download of an episode with a dead link in a worker loop: `return
\* False` on every attempt, so only `retries += 1`, and after the last
\* attempt the return to the loop as in Finish.  Downloads of dead links
\* can go on for ever; nothing in the scheduling reads total_processed,
\* which is counted here up to MaxProcessed only.
DownloadOfDeadLink(w) ==
    LET s == StageOf(w)
        e == cur[w]
    IN /\ pc[w] = "exec"
       /\ s = "download"
       /\ DeadLink(e)
       /\ IF retries[w] + 1 <= WorkerMaxRetries
            THEN /\ retries' = [retries EXCEPT ![w] = @ + 1]
                 /\ pc' = [pc EXCEPT ![w] = "exec"]
                 /\ UNCHANGED <<total_processed, active, unfinished, cur,
                                last_return>>
            ELSE /\ total_processed' =
                       IF total_processed < MaxProcessed
                         THEN total_processed + 1 ELSE total_processed
                 /\ IF e \in active[s]
                      THEN /\ active' = [active EXCEPT ![s] = @ \ {e}]
                           /\ unfinished' = [unfinished EXCEPT ![s] = @ - 1]
                           /\ pc' = [pc EXCEPT ![w] =
                                        IF is_running THEN "waiting"
                                        ELSE "exited"]
                      ELSE /\ pc' = [pc EXCEPT ![w] = "loop_sleep"]
                           /\ UNCHANGED <<active, unfinished>>
                 /\ cur' = [cur EXCEPT ![w] = 0]
                 /\ retries' = [retries EXCEPT ![w] = 0]
                 /\ Returned(w, "false")
       /\ UNCHANGED <<is_running, start_time, queues, status, mq_pc, stop_pc,
                      clock, faults, stop_backlog, failed_tasks, delay,
                      rlvars, cvars, mvars>>

\* An exception handler that rolls the row back to all flags false: what
\* the monotonicity of the flags must rule out.
ActionRaisesRollsBack(w, flagged) ==
    LET s == StageOf(w)
        e == cur[w]
    IN /\ pc[w] = "exec"
       /\ Precondition(status[e], s)
       /\ faults > 0
       /\ faults' = faults - 1
       /\ status' = [status EXCEPT
                        ![e] = [@ EXCEPT !.is_downloaded = FALSE,
                                         !.is_transcribed = FALSE,
                                         !.is_analyzed = FALSE,
                                         !.error_message = TRUE,
                                         !.retry_count = @ + 1]]
       /\ IF retries[w] < WorkerMaxRetries
            THEN /\ pc' = [pc EXCEPT ![w] = "backoff"]
                 /\ delay' = [delay EXCEPT
                                 ![w] = RetryDelay * 2 ^ retries[w]]
                 /\ UNCHANGED <<total_processed, active, unfinished, cur,
                                retries, last_return>>
            ELSE Finish(w) /\ Returned(w, "false") /\ UNCHANGED delay
       /\ UNCHANGED <<is_running, start_time, queues, mq_pc, stop_pc, clock,
                      stop_backlog, failed_tasks, rlvars, cvars, mvars>>

\* A retry loop that runs one attempt more (`retries <= max_retries + 1`):
\* what the bound on the attempts must rule out.
ActionRaisesOneMore(w, flagged) ==
    LET s == StageOf(w)
        e == cur[w]
        st == IF flagged THEN SetFlag(status[e], s) ELSE status[e]
    IN /\ pc[w] = "exec"
       /\ Precondition(status[e], s)
       /\ faults > 0
       /\ faults' = faults - 1
       /\ status' = [status EXCEPT
                        ![e] = [st EXCEPT !.error_message = TRUE,
                                          !.retry_count = @ + 1]]
       /\ IF retries[w] < WorkerMaxRetries + 1
            THEN /\ pc' = [pc EXCEPT ![w] = "backoff"]
                 /\ delay' = [delay EXCEPT
                                 ![w] = RetryDelay * 2 ^ retries[w]]
                 /\ UNCHANGED <<total_processed, active, unfinished, cur,
                                retries, last_return>>
            ELSE Finish(w) /\ Returned(w, "false") /\ UNCHANGED delay
       /\ UNCHANGED <<is_running, start_time, queues, mq_pc, stop_pc, clock,
                      stop_backlog, failed_tasks, rlvars, cvars, mvars>>

\* A process() without the `except Exception` of its loop: the exception
\* reaches the worker loop, which records it in failed_tasks.  What the
\* containment of exceptions must rule out.
ActionRaisesPropagates(w, flagged) ==
    LET s == StageOf(w)
        e == cur[w]
    IN /\ pc[w] = "exec"
       /\ Precondition(status[e], s)
       /\ faults > 0
       /\ faults' = faults - 1
       /\ status' = [status EXCEPT
                        ![e] = IF flagged THEN SetFlag(@, s) ELSE @]
       /\ failed_tasks' = Append(failed_tasks, <<e, s>>)
       /\ active' = [active EXCEPT ![s] = @ \ {e}]
       /\ unfinished' = [unfinished EXCEPT ![s] = @ - 1]
       /\ pc' = [pc EXCEPT ![w] = IF is_running THEN "waiting" ELSE "exited"]
       /\ cur' = [cur EXCEPT ![w] = 0]
       /\ retries' = [retries EXCEPT ![w] = 0]
       /\ UNCHANGED <<is_running, start_time, total_processed, queues, mq_pc,
                      stop_pc, clock, stop_backlog, last_return, delay,
                      rlvars, cvars, mvars>>

\* The action raised, before (flagged = FALSE) or after (flagged = TRUE) it
\* set its stage flag: error_message, retry_count += 1, commit, backoff.
AttemptRaises(w, flagged) ==
    LET s == StageOf(w)
        e == cur[w]
        st == IF flagged THEN SetFlag(status[e], s) ELSE status[e]
    IN /\ pc[w] = "exec"
       /\ Precondition(status[e], s)
       /\ faults > 0
       /\ faults' = faults - 1
       /\ status' = [status EXCEPT
                        ![e] = [st EXCEPT !.error_message = TRUE,
                                          !.retry_count = @ + 1]]
       /\ IF retries[w] < WorkerMaxRetries
            THEN /\ pc' = [pc EXCEPT ![w] = "backoff"]
                 /\ delay' = [delay EXCEPT
                                 ![w] = RetryDelay * 2 ^ retries[w]]
                 /\ UNCHANGED <<total_processed, active, unfinished, cur,
                                retries, last_return>>
            ELSE Return(w) /\ Returned(w, "false") /\ UNCHANGED delay
       /\ UNCHANGED <<is_running, start_time, queues, mq_pc, stop_pc, clock,
                      stop_backlog, failed_tasks, cvars, mvars>>

\* The same in a worker loop, where acquire() is taken to return in time.
ActionRaises(w, flagged) == AttemptRaises(w, flagged) /\ UNCHANGED rlvars

\* asyncio.sleep(delay) of the backoff ends: retries += 1, next attempt.
Backoff(w) ==
    /\ pc[w] = "backoff"
    /\ retries' = [retries EXCEPT ![w] = @ + 1]
    /\ pc' = [pc EXCEPT ![w] = "exec"]
    /\ delay' = [delay EXCEPT ![w] = 0]
    /\ UNCHANGED <<is_running, start_time, total_processed, queues, unfinished,
                   active, status, cur, mq_pc, stop_pc, clock, faults,
                   stop_backlog, failed_tasks, last_return, rlvars, cvars, mvars>>

(***************************************************************************)
(* RateLimiter                                                             *)
(***************************************************************************)
\* __init__.  The field tokens holds tokens * time_window, an integer, so
\* that the refill of a whole number of seconds is exact.
NewLimiter(max_calls, time_window, now) ==
    [max_calls |-> max_calls, time_window |-> time_window,
     tokens |-> max_calls * time_window, last_update |-> now]

Min(a, b) == IF a <= b THEN a ELSE b

\* An _add_tokens without the min(max_calls, ...) cap: what the pacing of
\* the limiter must rule out.
AddTokensUncapped(rl, now) ==
    LET time_passed == now - rl.last_update
        new_tokens == time_passed * rl.max_calls
    IN IF new_tokens > 0
         THEN [rl EXCEPT !.tokens = @ + new_tokens, !.last_update = now]
         ELSE rl

\* _add_tokens at time now.
AddTokens(rl, now) ==
    LET time_passed == now - rl.last_update
        new_tokens == time_passed * rl.max_calls
    IN IF new_tokens > 0
         THEN [rl EXCEPT
                  !.tokens = Min(rl.max_calls * rl.time_window, @ + new_tokens),
                  !.last_update = now]
         ELSE rl

\* A check that passes on any fraction of a token (`self.tokens > 0`):
\* what the lower bound of the token count must rule out.
HasFractionOfToken(rl) == rl.tokens > 0

\* `self.tokens >= 1` and `self.tokens -= 1`.
HasToken(rl) == rl.tokens >= rl.time_window

TakeToken(rl) == [rl EXCEPT !.tokens = @ - rl.time_window]

\* One turn of the loop of acquire() by caller c: under the lock,
\* _add_tokens and the check; then either the return or the sleep.
TryAcquire(c) ==
    LET l == rate_limiter[c]
        rl == AddTokens(limiters[l], mono)
    IN IF HasToken(rl)
         THEN /\ limiters' = [limiters EXCEPT ![l] = TakeToken(rl)]
              /\ grants' = [grants EXCEPT ![l] = Append(@, mono)]
              /\ rl_pc' = [rl_pc EXCEPT ![c] = "idle"]
         ELSE /\ limiters' = [limiters EXCEPT ![l] = rl]
              /\ rl_pc' = [rl_pc EXCEPT ![c] = "sleeping"]
              /\ UNCHANGED grants

\* A caller calls acquire().
AcquireCall(c) ==
    /\ rl_pc[c] = "idle"
    /\ TryAcquire(c)
    /\ UNCHANGED <<rate_limiter, mono, pvars, cvars, mvars>>

\* asyncio.sleep(0.1) ends and the caller tries again.
AcquirePoll(c) ==
    /\ rl_pc[c] = "sleeping"
    /\ TryAcquire(c)
    /\ UNCHANGED <<rate_limiter, mono, pvars, cvars, mvars>>

\* A second passes.
RLTick(horizon) ==
    /\ mono < horizon
    /\ mono' = mono + 1
    /\ UNCHANGED <<rate_limiter, limiters, rl_pc, grants, pvars, cvars, mvars>>

\* One turn of the loop of acquire() by caller c, with no record kept of
\* the time of the return.
TryAcquireUnrecorded(c) ==
    LET l == rate_limiter[c]
        rl == AddTokens(limiters[l], mono)
    IN /\ IF HasToken(rl)
            THEN /\ limiters' = [limiters EXCEPT ![l] = TakeToken(rl)]
                 /\ rl_pc' = [rl_pc EXCEPT ![c] = "idle"]
            ELSE /\ limiters' = [limiters EXCEPT ![l] = rl]
                 /\ rl_pc' = [rl_pc EXCEPT ![c] = "sleeping"]
       /\ UNCHANGED <<rate_limiter, mono, grants, pvars, cvars, mvars>>

\* A caller calls acquire().
CallUnrecorded(c) == rl_pc[c] = "idle" /\ TryAcquireUnrecorded(c)

\* asyncio.sleep(0.1) ends and the caller tries again.
PollUnrecorded(c) == rl_pc[c] = "sleeping" /\ TryAcquireUnrecorded(c)

\* A second passes in a run without end.  The origin of time.monotonic()
\* is arbitrary: mono stays and the last_update of every limiter moves
\* back by a second instead, up to time_window seconds, after which the
\* next _add_tokens fills the bucket whatever more has passed.  A caller
\* that sleeps polls ten times a second: the second does not end while a
\* whole token is there for a sleeping caller to take.
SecondPasses ==
    /\ \A c \in DOMAIN rl_pc :
          rl_pc[c] = "sleeping" =>
              ~HasToken(AddTokens(limiters[rate_limiter[c]], mono))
    /\ limiters' =
          [l \in DOMAIN limiters |->
              [limiters[l] EXCEPT
                  !.last_update =
                      IF mono - limiters[l].last_update < limiters[l].time_window
                        THEN @ - 1 ELSE @]]
    /\ UNCHANGED <<rate_limiter, mono, rl_pc, grants, pvars, cvars, mvars>>

(***************************************************************************)
(* BaseWorker.process called directly                                      *)
(***************************************************************************)
\* A process() that enters its retry loop without looking the episode and
\* its status up: what the fail-fast lookups must rule out.
ProcessCallUnchecked(w, e) ==
    /\ ~start_time
    /\ pc[w] = "init"
    /\ last_call' = [last_call EXCEPT ![w] = e]
    /\ cur' = [cur EXCEPT ![w] = e]
    /\ retries' = [retries EXCEPT ![w] = 0]
    /\ pc' = [pc EXCEPT ![w] = "exec"]
    /\ last_return' = [last_return EXCEPT ![w] = NoReturn]
    /\ UNCHANGED <<is_running, start_time, total_processed, queues, unfinished,
                   active, status, mq_pc, stop_pc, clock, faults, stop_backlog,
                   failed_tasks, delay, config, episodes, pass_history, cm_pc,
                   rlvars, mvars>>

\* worker.process(e) is called on a worker of a manager that was not
\* started: the two lookups, then _update_start_time and `retries = 0`.
ProcessCall(w, e) ==
    /\ ~start_time
    /\ pc[w] = "init"
    /\ last_call' = [last_call EXCEPT ![w] = e]
    /\ IF e \in episodes /\ e \in DOMAIN status
         THEN /\ status' = [status EXCEPT
                               ![e].started_at = @ \cup {StageOf(w)}]
              /\ cur' = [cur EXCEPT ![w] = e]
              /\ retries' = [retries EXCEPT ![w] = 0]
              /\ pc' = [pc EXCEPT ![w] = "exec"]
              /\ last_return' = [last_return EXCEPT ![w] = NoReturn]
         ELSE /\ Returned(w, "false")
              /\ UNCHANGED <<status, cur, retries, pc>>
    /\ UNCHANGED <<is_running, start_time, total_processed, queues, unfinished,
                   active, mq_pc, stop_pc, clock, faults, stop_backlog,
                   failed_tasks, delay, config, episodes, pass_history, cm_pc,
                   rlvars, mvars>>

\* acquire() of caller c would return at once.
Granted(c) == HasToken(AddTokens(limiters[rate_limiter[c]], mono))

\* The head of one turn of the retry loop: acquire() returns without
\* suspending and the action runs.
AcquireReturns(w) ==
    /\ ~start_time
    /\ pc[w] = "exec"
    /\ Granted(w)
    /\ TryAcquire(w)
    /\ UNCHANGED <<rate_limiter, mono>>

DirectSucceeds(w) == AcquireReturns(w) /\ AttemptSucceeds(w)

DirectReturnsFalse(w) == AcquireReturns(w) /\ AttemptReturnsFalse(w)

DirectRaises(w, flagged) == AcquireReturns(w) /\ AttemptRaises(w, flagged)

\* acquire() finds no token and sleeps.
AcquireWaits(w) ==
    /\ ~start_time
    /\ pc[w] = "exec"
    /\ ~Granted(w)
    /\ TryAcquire(w)
    /\ UNCHANGED <<rate_limiter, mono, pvars, cvars, mvars>>

(***************************************************************************)
(* MetricsCollector                                                        *)
(***************************************************************************)
\* __init__ at time now.  A dict is a function from its keys.
NewCollector(now) ==
    /\ _metrics = <<>>
    /\ _counters = <<>>
    /\ _start_time = now

\* dict.update(mapping): the keys of mapping are set, the others kept.
DictUpdate(d, mapping) ==
    [n \in DOMAIN d \cup DOMAIN mapping |->
        IF n \in DOMAIN mapping THEN mapping[n] ELSE d[n]]

\* update(metrics)
Update(mapping) ==
    /\ _metrics' = DictUpdate(_metrics, mapping)
    /\ UNCHANGED <<_counters, _start_time>>

\* set(name, value)
Set(name, value) ==
    /\ _metrics' = DictUpdate(_metrics, [n \in {name} |-> value])
    /\ UNCHANGED <<_counters, _start_time>>

\* increment(name, amount)
Increment(name, amount) ==
    /\ _counters' =
          DictUpdate(_counters,
                     [n \in {name} |->
                         (IF name \in DOMAIN _counters
                            THEN _counters[name] ELSE 0) + amount])
    /\ UNCHANGED <<_metrics, _start_time>>

\* reset()
Reset ==
    /\ _metrics' = <<>>
    /\ _counters' = <<>>
    /\ _start_time' = mono

\* The default of get() when the caller gives none: Python's None, a value
\* no caller stores.
None == 0 - 1

\* get(name, default): the gauge of that name if there is one, else the
\* counter of that name if there is one, else default.
get(name, default) ==
    IF name \in DOMAIN _metrics THEN _metrics[name]
    ELSE IF name \in DOMAIN _counters THEN _counters[name]
    ELSE default

\* get_all(): the copy of _metrics, updated with _counters, then its key
\* 'uptime' assigned.
get_all ==
    DictUpdate(DictUpdate(_metrics, _counters),
               [n \in {"uptime"} |-> mono - _start_time])

\* ProcessingManager.get_status(): the dict it returns.
get_status ==
    [is_running |-> is_running,
     start_time |-> start_time,
     total_processed |-> total_processed,
     failed_tasks |-> Len(failed_tasks),
     metrics |-> get_all,
     queues |-> [s \in Stages |-> BagCardinality(queues[s])],
     active_tasks |-> [s \in Stages |-> Cardinality(active[s])]]

(***************************************************************************)
(* _collect_metrics                                                        *)
(***************************************************************************)
\* The gauges a pass reports.  processing_rate is total_processed divided
\* by the seconds since start(), kept as <<numerator, denominator>>; the
\* hours of `clock` are the time the pass reads.
Gauges ==
    LET elapsed == clock * 3600
    IN [processing_rate |-> IF elapsed > 0 THEN <<total_processed, elapsed>>
                            ELSE <<0, 1>>,
        total_processed |-> total_processed,
        failed_tasks |-> Len(failed_tasks),
        download_queue |-> BagCardinality(download_queue),
        transcribe_queue |-> BagCardinality(transcribe_queue),
        analyze_queue |-> BagCardinality(analyze_queue),
        active_downloads |-> Cardinality(active_downloads),
        active_transcriptions |-> Cardinality(active_transcriptions),
        active_analyses |-> Cardinality(active_analyses)]

\* One pass of the while loop: metrics.update, the log line, the sleep.
CollectMetrics ==
    /\ cm_pc = "loop"
    /\ is_running
    /\ Update(Gauges)
    /\ Completed("_collect_metrics")
    /\ UNCHANGED <<pvars, rlvars, config, episodes, cm_pc, last_call>>

\* One pass that raises, before (updated = FALSE) or after (updated = TRUE)
\* metrics.update: the handler logs the error and the loop goes on to its
\* sleep.
CollectMetricsRaises(updated) ==
    /\ cm_pc = "loop"
    /\ is_running
    /\ faults > 0
    /\ faults' = faults - 1
    /\ IF updated THEN Update(Gauges) ELSE UNCHANGED mvars
    /\ Failed("_collect_metrics")
    /\ UNCHANGED <<is_running, start_time, total_processed, queues, unfinished,
                   active, status, pc, cur, retries, mq_pc, stop_pc, clock,
                   stop_backlog, hvars, rlvars, config, episodes, cm_pc,
                   last_call>>

\* The loop condition fails after stop().
CollectMetricsExit ==
    /\ cm_pc = "loop"
    /\ ~is_running
    /\ cm_pc' = "exited"
    /\ UNCHANGED <<pvars, rlvars, config, episodes, pass_history, last_call,
                   mvars>>

\* The callers DOMAIN limiter_of, caller c holding the RateLimiter
\* limiter_of[c], each limiter constructed at time 0.
InitLimiters(limiter_of, max_calls) ==
    LET ls == {limiter_of[c] : c \in DOMAIN limiter_of}
    IN /\ rate_limiter = limiter_of
       /\ limiters = [l \in ls |-> NewLimiter(max_calls, TimeWindow, 0)]
       /\ mono = 0
       /\ rl_pc = [c \in DOMAIN limiter_of |-> "idle"]
       /\ grants = [l \in ls |-> <<>>]

\* ProcessingManager.__init__ builds a RateLimiter inside the comprehension
\* that builds the workers: every worker holds a limiter of its own.
OwnLimiter(w) == w

\* Callers that were handed one and the same RateLimiter.
SharedLimiter(c) == 1

\* The state after ProcessingManager(session, config) over a store whose
\* ProcessingStatus rows are one of `rows` and whose Episode rows `orphans`
\* have no ProcessingStatus.
InitStore(cfg, rows, orphans, nfaults) ==
    /\ is_running = FALSE
    /\ start_time = FALSE
    /\ total_processed = 0
    /\ queues = [s \in Stages |-> EmptyBag]
    /\ unfinished = [s \in Stages |-> 0]
    /\ active = [s \in Stages |-> {}]
    /\ status \in rows
    /\ pc = [w \in WorkersOf(cfg) |-> "init"]
    /\ cur = [w \in WorkersOf(cfg) |-> 0]
    /\ retries = [w \in WorkersOf(cfg) |-> 0]
    /\ mq_pc = "init"
    /\ stop_pc = "none"
    /\ clock = 0
    /\ faults = nfaults
    /\ stop_backlog = -1
    /\ failed_tasks = <<>>
    /\ last_return = [w \in WorkersOf(cfg) |-> NoReturn]
    /\ delay = [w \in WorkersOf(cfg) |-> 0]
    /\ config = cfg
    /\ episodes = DOMAIN status \cup orphans
    /\ pass_history = [l \in Loops |-> "none"]
    /\ cm_pc = "init"
    /\ last_call = [w \in WorkersOf(cfg) |-> 0]
    /\ NewCollector(0)
    /\ InitLimiters([w \in WorkersOf(cfg) |-> OwnLimiter(w)], RateLimit)

\* The same over a store in which every Episode has its ProcessingStatus.
InitRows(cfg, rows, nfaults) == InitStore(cfg, rows, {}, nfaults)

\* The same over a store that holds n episodes, each having completed some
\* of `done` stages earlier.
InitWith(cfg, n, done, nfaults) ==
    InitRows(cfg, [1..n -> {PersistedStatus(k) : k \in done}], nfaults)

\* The steps of the manager and its workers other than the population pass.
Work ==
    \/ Start
    \/ Stop
    \/ \E s \in Stages : StopJoin(s)
    \/ ManageQueuesExit
    \/ \E w \in Workers : WorkerLoop(w)
    \/ \E w \in Workers : Pop(w)
    \/ \E w \in Workers : ActionSucceeds(w)
    \/ \E w \in Workers : ActionReturnsFalse(w)
    \/ \E w \in Workers, flagged \in BOOLEAN : ActionRaises(w, flagged)
    \/ \E w \in Workers : Backoff(w)

\* One worker per stage; episodes in any persisted stage; every pass of the
\* run reads the same hour.
Init ==
    InitWith(Config(1, 1, 1), NumEpisodes, 0..3, MaxFaults)

Next ==
    \/ ManageQueues(clock, MaxQueue)
    \/ Work

Spec == Init /\ [][Next]_vars

\* One worker per stage and a backlog of fresh episodes; time advances.
InitBacklog ==
    InitWith(Config(1, 1, 1), BacklogEpisodes, {0}, MaxFaults)

NextBacklog ==
    \/ \E now \in clock..MaxClock : ManageQueues(now, BacklogQueue)
    \/ Work

SpecBacklog == InitBacklog /\ [][NextBacklog]_vars

\* A pool of download workers and a backlog larger than the pool.
InitPool ==
    InitWith(Config(PoolWorkers, 0, 0), PoolEpisodes, {0}, MaxFaults)

SpecPool == InitPool /\ [][NextBacklog]_vars

\* One download worker and collaborators that fail often enough to exhaust
\* the attempts of a process() call; every pass reads the same hour.
InitRetry ==
    InitWith(Config(1, 0, 0), RetryEpisodes, {0}, RetryFaults)

SpecRetry == InitRetry /\ [][Next]_vars

\* One download worker and a backlog of fresh episodes; time advances.
InitRequeue ==
    InitWith(Config(1, 0, 0), BacklogEpisodes, {0}, MaxFaults)

SpecRequeue == InitRequeue /\ [][NextBacklog]_vars

\* One analyze worker whose collaborators never fail over a store of
\* transcribed episodes, and a session and a collector that make passes of
\* the two periodic loops raise.
InitPassErrors ==
    InitWith(Config(0, 0, 1), PassEpisodes, {2}, PassFaults)

\* The steps of the worker loops when every attempt succeeds.
WorkerSteps ==
    \/ \E w \in Workers : WorkerLoop(w)
    \/ \E w \in Workers : Pop(w)
    \/ \E w \in Workers : ActionSucceeds(w)

\* The passes of the two periodic loops, completed or raised.
Passes(l) ==
    IF l = "_manage_queues"
      THEN ManageQueues(clock, PassQueue) \/ ManageQueuesRaises
      ELSE CollectMetrics \/ \E updated \in BOOLEAN : CollectMetricsRaises(updated)

NextPassErrors ==
    \/ ManageQueues(clock, PassQueue)
    \/ ManageQueuesRaises
    \/ ManageQueuesExit
    \/ CollectMetrics
    \/ \E updated \in BOOLEAN : CollectMetricsRaises(updated)
    \/ CollectMetricsExit
    \/ Start
    \/ Stop
    \/ \E s \in Stages : StopJoin(s)
    \/ WorkerSteps

\* The event loop runs every task that is ready: a worker that can take a
\* step takes it, and a periodic loop whose sleep has ended runs its pass.
SpecPassErrors ==
    /\ InitPassErrors
    /\ [][NextPassErrors]_vars
    /\ WF_vars(WorkerSteps)
    /\ \A l \in Loops : WF_vars(Passes(l))

\* Every step of a worker task: the loop head, the pop, the attempts of
\* process() however they end, and the end of a backoff.
WorkerTask(w) ==
    \/ WorkerLoop(w)
    \/ Pop(w)
    \/ ActionSucceeds(w)
    \/ ActionReturnsFalse(w)
    \/ \E flagged \in BOOLEAN : ActionRaises(w, flagged)
    \/ Backoff(w)

NextShutdown ==
    \/ Next
    \/ CollectMetrics
    \/ CollectMetricsExit

\* One download worker and a backlog of fresh episodes, shut down by
\* stop().  The event loop runs every task that is ready and every stage
\* action ends: a worker task that can step does, a join whose queue has
\* no unfinished task returns, and a loop whose condition fails ends.
SpecShutdown ==
    /\ InitRequeue
    /\ [][NextShutdown]_vars
    /\ \A w \in WorkersOf(Config(1, 0, 0)) : WF_vars(WorkerTask(w))
    /\ WF_vars(\E s \in Stages : StopJoin(s))
    /\ WF_vars(ManageQueuesExit)
    /\ WF_vars(CollectMetricsExit)

\* One download worker with failing collaborators while the manager runs:
\* the worker task steps whenever it can, and the population loop runs its
\* pass whenever its sleep has ended.
SpecScheduling ==
    /\ InitRetry
    /\ [][Next]_vars
    /\ \A w \in WorkersOf(Config(1, 0, 0)) : WF_vars(WorkerTask(w))
    /\ WF_vars(ManageQueues(clock, MaxQueue))

\* One download worker over a store that holds one batch of the population
\* pass of undownloaded episodes with dead links, next to an older episode
\* whose link is alive.  Every episode the worker gets to hold has a dead
\* link, so no attempt of the run succeeds.
InitBatch ==
    InitWith(Config(1, 0, 0), BatchLimit + 1, {0}, 0)

NextBatch ==
    \/ Start
    \/ ManageQueues(clock, BatchLimit)
    \/ \E w \in Workers : WorkerLoop(w)
    \/ \E w \in Workers : Pop(w)
    \/ \E w \in Workers : DownloadOfDeadLink(w)

\* The manager runs: the worker task steps whenever it can, and the
\* population loop runs its pass whenever its sleep has ended.
SpecBatch ==
    /\ InitBatch
    /\ [][NextBatch]_vars
    /\ \A w \in WorkersOf(Config(1, 0, 0)) :
          WF_vars(WorkerLoop(w) \/ Pop(w) \/ DownloadOfDeadLink(w))
    /\ WF_vars(ManageQueues(clock, BatchLimit))

\* One download worker with failing collaborators under a manager whose
\* ProcessingConfig sets max_retries and retry_delay.
InitConfigured ==
    \E m \in 1..MaxConfigRetries, d \in 1..MaxConfigDelay :
        InitWith([Config(1, 0, 0) EXCEPT !.max_retries = m, !.retry_delay = d],
                 RetryEpisodes, {0}, RetryFaults)

SpecConfigured == InitConfigured /\ [][Next]_vars

\* One download worker, collaborators that never fail, and a backlog of
\* undownloaded episodes with retry counts left by earlier runs; time
\* advances between passes.
InitPriority ==
    InitRows(Config(1, 0, 0),
             [1..PriorityEpisodes ->
                 {FailedStatus(r) : r \in 0..PersistedRetries}], 0)

NextPriority ==
    \/ \E now \in clock..MaxClock : ManageQueues(now, PriorityQueue)
    \/ Start
    \/ Stop
    \/ \E s \in Stages : StopJoin(s)
    \/ ManageQueuesExit
    \/ \E w \in Workers : WorkerLoop(w)
    \/ \E w \in Workers : Pop(w)
    \/ \E w \in Workers : ActionSucceeds(w)

SpecPriority == InitPriority /\ [][NextPriority]_vars

\* One worker per stage, an episode fresh or already downloaded, and
\* collaborators that fail often enough to exhaust a process() call.
InitFailing ==
    InitWith(Config(1, 1, 1), RetryEpisodes, {0, 1}, RetryFaults)

SpecFailing == InitFailing /\ [][Next]_vars

\* The transcribe or the analyze worker of a constructed manager whose
\* process() is called directly, for episodes in any persisted stage, for
\* an Episode without ProcessingStatus and for an id without Episode.
InitProcess ==
    \E cfg \in {Config(0, 1, 0), Config(0, 0, 1)} :
        InitStore(cfg,
                  [1..ProcessEpisodes -> {PersistedStatus(k) : k \in 0..2}],
                  {ProcessEpisodes + 1}, ProcessFaults)

NextProcess ==
    \/ \E w \in Workers, e \in 1..(ProcessEpisodes + 2) : ProcessCall(w, e)
    \/ \E w \in Workers : DirectSucceeds(w)
    \/ \E w \in Workers : DirectReturnsFalse(w)
    \/ \E w \in Workers, flagged \in BOOLEAN : DirectRaises(w, flagged)
    \/ \E w \in Workers : AcquireWaits(w)
    \/ \E w \in Workers : Backoff(w)
    \/ RLTick(ProcessTime)

SpecProcess == InitProcess /\ [][NextProcess]_vars

\* The MetricsCollector of a constructed manager and callers of its
\* methods; reading get_all() changes nothing and is not a step.
InitMetrics == InitWith(Config(0, 0, 0), 0, {0}, 0)

NextMetrics ==
    \/ \E name \in MetricNames, value \in 0..MaxValue :
          Set(name, value) /\ UNCHANGED <<pvars, cvars, rlvars>>
    \/ \E names \in SUBSET MetricNames \ {{}} :
          \E mapping \in [names -> 0..MaxValue] :
              Update(mapping) /\ UNCHANGED <<pvars, cvars, rlvars>>
    \/ \E name \in MetricNames :
          /\ name \in DOMAIN _counters => _counters[name] < MaxCount
          /\ Increment(name, 1)
          /\ UNCHANGED <<pvars, cvars, rlvars>>
    \/ Reset /\ UNCHANGED <<pvars, cvars, rlvars>>
    \/ RLTick(MetricsTime)

SpecMetrics == InitMetrics /\ [][NextMetrics]_vars

\* The workers of one stage of a constructed manager calling acquire() on
\* the limiters __init__ gave them.
InitStage == InitWith(Config(StageWorkers, 0, 0), 0, {0}, 0)

NextStage ==
    \/ \E c \in DOMAIN rl_pc : AcquireCall(c)
    \/ \E c \in DOMAIN rl_pc : AcquirePoll(c)
    \/ RLTick(StageTime)

SpecStage == InitStage /\ [][NextStage]_vars

\* One RateLimiter(RateLimit, TimeWindow) and the callers that share it.
InitRL ==
    /\ is_running = FALSE
    /\ start_time = FALSE
    /\ total_processed = 0
    /\ queues = [s \in Stages |-> EmptyBag]
    /\ unfinished = [s \in Stages |-> 0]
    /\ active = [s \in Stages |-> {}]
    /\ status = <<>>
    /\ pc = <<>>
    /\ cur = <<>>
    /\ retries = <<>>
    /\ mq_pc = "init"
    /\ stop_pc = "none"
    /\ clock = 0
    /\ faults = 0
    /\ stop_backlog = -1
    /\ failed_tasks = <<>>
    /\ last_return = <<>>
    /\ delay = <<>>
    /\ config = Config(0, 0, 0)
    /\ episodes = {}
    /\ pass_history = [l \in Loops |-> "none"]
    /\ cm_pc = "init"
    /\ last_call = <<>>
    /\ NewCollector(0)
    /\ InitLimiters([c \in 1..RLCallers |-> SharedLimiter(c)], RateLimit)

NextRL ==
    \/ \E c \in DOMAIN rl_pc : AcquireCall(c)
    \/ \E c \in DOMAIN rl_pc : AcquirePoll(c)
    \/ RLTick(MaxTime)

SpecRL == InitRL /\ [][NextRL]_vars

\* One RateLimiter(max_calls, TimeWindow) shared by the callers 1..n, with
\* no manager, worker or episode.
InitCallers(n, max_calls) ==
    /\ is_running = FALSE
    /\ start_time = FALSE
    /\ total_processed = 0
    /\ queues = [s \in Stages |-> EmptyBag]
    /\ unfinished = [s \in Stages |-> 0]
    /\ active = [s \in Stages |-> {}]
    /\ status = <<>>
    /\ pc = <<>>
    /\ cur = <<>>
    /\ retries = <<>>
    /\ mq_pc = "init"
    /\ stop_pc = "none"
    /\ clock = 0
    /\ faults = 0
    /\ stop_backlog = -1
    /\ failed_tasks = <<>>
    /\ last_return = <<>>
    /\ delay = <<>>
    /\ config = Config(0, 0, 0)
    /\ episodes = {}
    /\ pass_history = [l \in Loops |-> "none"]
    /\ cm_pc = "init"
    /\ last_call = <<>>
    /\ NewCollector(0)
    /\ InitLimiters([c \in 1..n |-> SharedLimiter(c)], max_calls)

\* Several callers of acquire() on one shared RateLimiter.
InitShared == InitCallers(SharedCallers, SharedLimit)

NextShared ==
    \/ \E c \in DOMAIN rl_pc : AcquireCall(c)
    \/ \E c \in DOMAIN rl_pc : AcquirePoll(c)
    \/ RLTick(SharedTime)

SpecShared == InitShared /\ [][NextShared]_vars

NextPolling ==
    \/ \E c \in DOMAIN rl_pc : CallUnrecorded(c)
    \/ \E c \in DOMAIN rl_pc : PollUnrecorded(c)
    \/ SecondPasses

\* Callers of acquire() on one shared RateLimiter in a run without end:
\* time advances, and every sleep of a caller ends.
SpecPolling ==
    /\ InitShared
    /\ [][NextPolling]_vars
    /\ WF_vars(SecondPasses)
    /\ \A c \in 1..SharedCallers : WF_vars(PollUnrecorded(c))

(***************************************************************************)
(* Properties                                                              *)
(***************************************************************************)
\* C1: for each stage, no episode id is at the same time an entry of the
\* stage's queue and a member of the stage's active set.
QueueActiveDisjoint ==
    \A s \in Stages : QIds(queues[s]) \cap active[s] = {}

\* C2: an episode id is a member of at most one of the three active sets.
OneActiveSet ==
    \A e \in Episodes : Cardinality({s \in Stages : e \in active[s]}) <= 1

\* C3: no two workers of the same stage are inside process() for the same
\* episode id.
NoDuplicateProcessing ==
    \A w1, w2 \in Workers :
        (/\ w1 # w2
         /\ StageOf(w1) = StageOf(w2)
         /\ pc[w1] \in InProcess
         /\ pc[w2] \in InProcess) => cur[w1] # cur[w2]

\* C4: no worker starts process() for an episode and a stage whose action
\* already succeeded for that episode (flag committed true).
NoReexecution ==
    [][\A w \in Workers :
          (pc[w] = "waiting" /\ pc'[w] = "exec") =>
              ~(/\ StageOf(w) \in status[cur'[w]].completed_at
                /\ Flag(status[cur'[w]], StageOf(w)))]_vars

\* C5: each of the three stage flags of every episode is monotonic: a step
\* never takes it from true to false.
FlagsMonotonic ==
    [][\A e \in Episodes :
          /\ status[e].is_downloaded => status'[e].is_downloaded
          /\ status[e].is_transcribed => status'[e].is_transcribed
          /\ status[e].is_analyzed => status'[e].is_analyzed]_vars

\* C5, its case: a flag is true, and an attempt of the next stage was
\* started and failed after it.
FlagSurvivedFailure ==
    \E e \in Episodes :
        /\ status[e].is_downloaded
        /\ ~status[e].is_transcribed
        /\ "transcribe" \in status[e].started_at
        /\ status[e].error_message
        /\ status[e].retry_count > 0

\* The stage an episode with these flags is due for.
DueStage(st) ==
    IF ~st.is_downloaded THEN "download"
    ELSE IF ~st.is_transcribed THEN "transcribe"
    ELSE IF ~st.is_analyzed THEN "analyze"
    ELSE "none"

StopReturnsDrained ==
    stop_pc = "returned" =>
        /\ \A s \in Stages : queues[s] = EmptyBag /\ unfinished[s] = 0
        /\ \A s \in Stages : active[s] = {}
        /\ \A w \in Workers : pc[w] \notin InProcess

\* C7, its case: stop() was called while items were queued, and returned.
StoppedWithBacklog ==
    /\ stop_pc = "returned"
    /\ stop_backlog > 0
    /\ total_processed > 0

\* C8: a limiter never lets more than max_calls calls of acquire() return
\* within a time window shorter than time_window.
WindowBound ==
    \A l \in DOMAIN grants : \A i, j \in DOMAIN grants[l] :
        (i < j /\ grants[l][j] - grants[l][i] < limiters[l].time_window) =>
            j - i + 1 <= limiters[l].max_calls

\* C9: from a fresh limiter the first max_calls calls return without
\* waiting, and every further return costs time_window / max_calls seconds
\* of refill: any n > max_calls returns span at least
\* (n - max_calls) * time_window / max_calls seconds.
BurstThenPaced ==
    /\ \A c \in DOMAIN rl_pc :
          rl_pc[c] = "sleeping" =>
              Len(grants[rate_limiter[c]]) >= limiters[rate_limiter[c]].max_calls
    /\ \A l \in DOMAIN grants : \A i, j \in DOMAIN grants[l] :
          (i < j /\ j - i + 1 > limiters[l].max_calls) =>
              (j - i + 1 - limiters[l].max_calls) * limiters[l].time_window
                  <= (grants[l][j] - grants[l][i]) * limiters[l].max_calls

\* C9, its case: max_calls calls returned at the instant of construction
\* and the next one exactly time_window / max_calls seconds later.
SixthAfterRefill ==
    \E l \in DOMAIN grants :
        /\ Len(grants[l]) > RateLimit
        /\ grants[l][RateLimit] = 0
        /\ grants[l][RateLimit + 1] * RateLimit = TimeWindow

\* The returns of acquire() to the workers of stage s in the window that
\* starts at time t.
StageGrants(s, t) ==
    UNION {{<<rate_limiter[w], i>> :
                i \in {k \in DOMAIN grants[rate_limiter[w]] :
                          /\ t <= grants[rate_limiter[w]][k]
                          /\ grants[rate_limiter[w]][k] < t + TimeWindow}} :
           w \in {v \in Workers : StageOf(v) = s}}

\* C10: the acquisitions of all workers of one stage in any 60-second
\* window number at most the rate limit of the stage.
StageWindowBound ==
    \A s \in Stages : \A t \in 0..mono :
        Cardinality(StageGrants(s, t)) <= RateLimit

\* The entries of stage s a step puts, and the entries it takes.
PutBy(s, x) == CopiesIn(x, queues'[s]) > CopiesIn(x, queues[s])

TakenBy(s, x) == CopiesIn(x, queues'[s]) < CopiesIn(x, queues[s])

\* C11: the score pushed with an episode is its age in hours at the pass
\* plus 24 per retry_count (age 10h / retry 0 gives 10, age 1h / retry 1
\* gives 25), and a dequeue takes an entry of the lowest score queued in
\* the stage (10 before 25).
PriorityScore ==
    [][\A s \in Stages :
          /\ \A x \in BagToSet(queues'[s]) :
                PutBy(s, x) =>
                    x[1] = PublishAge(x[2]) + clock'
                             + status[x[2]].retry_count * 24
          /\ \A x, y \in BagToSet(queues[s]) :
                TakenBy(s, x) => x[1] <= y[1]]_vars

\* C11, its case: the episode of age 10h and retry 0 is queued with score
\* 10 next to the episode of age 1h and retry 1 with score 25.
ScoresTenAndTwentyFive ==
    \E s \in Stages :
        /\ {<<10, 1>>, <<25, 2>>} \subseteq BagToSet(queues[s])
        /\ status[1].retry_count = 0
        /\ status[2].retry_count = 1
        /\ PublishAge(2) = 1

\* The hour of the pass that put entry x (retry_count as it stands).
EnqueuedAt(x) ==
    x[1] - PublishAge(x[2]) - status[x[2]].retry_count * RetryPenaltyHours

\* C12 as stated: when an entry is dequeued, no other episode queued in the
\* stage with equal retry_count has an earlier publish date, and none with
\* equal publish date has a smaller retry_count.
OlderFirst ==
    [][\A s \in Stages : \A x, y \in BagToSet(queues[s]) :
          (TakenBy(s, x) /\ x[2] # y[2]) =>
              /\ status[x[2]].retry_count = status[y[2]].retry_count
                    => PublishAge(x[2]) >= PublishAge(y[2])
              /\ PublishAge(x[2]) = PublishAge(y[2])
                    => status[x[2]].retry_count
                          <= status[y[2]].retry_count]_vars

\* C12 as amended: among entries scored by the same pass, the one dequeued
\* has, of equal retry_count, the latest publish date, and, of equal
\* publish date, the smallest retry_count.
NewerFirst ==
    [][\A s \in Stages : \A x, y \in BagToSet(queues[s]) :
          (TakenBy(s, x) /\ x[2] # y[2] /\ EnqueuedAt(x) = EnqueuedAt(y)) =>
              /\ status[x[2]].retry_count = status[y[2]].retry_count
                    => PublishAge(x[2]) <= PublishAge(y[2])
              /\ PublishAge(x[2]) = PublishAge(y[2])
                    => status[x[2]].retry_count
                          <= status[y[2]].retry_count]_vars

\* C12, its case: a worker holds the episode it dequeued while an older
\* episode of equal retry_count and an episode of equal publish date and
\* larger retry_count, scored by the same pass, are still queued.
DequeuedNewestLeastRetried ==
    \E w \in Workers : \E f, g \in Episodes :
        /\ pc[w] = "exec"
        /\ {f, g} \subseteq QIds(queues[StageOf(w)]) \ {cur[w]}
        /\ BagCardinality(queues[StageOf(w)]) = Cardinality(Episodes) - 1
        /\ status[f].retry_count = status[cur[w]].retry_count
        /\ PublishAge(f) > PublishAge(cur[w])
        /\ PublishAge(g) = PublishAge(cur[w])
        /\ status[g].retry_count > status[cur[w]].retry_count

\* process() of worker w returns false in this step.
ReturnsFalse(w) == last_return[w] # "false" /\ last_return'[w] = "false"

\* C13: one process() call invokes the action at most max_retries + 1
\* times, and it returns false only right after its try number
\* max_retries + 1 = 4 has failed.
AttemptsBounded ==
    [][\A w \in Workers :
          /\ pc'[w] \in InProcess => retries'[w] + 1 <= WorkerMaxRetries + 1
          /\ ReturnsFalse(w) => retries[w] + 1 = 4]_vars

\* C13, its case: a process() call failed on every attempt and returned
\* false.
ExhaustedAttempts ==
    \E w \in Workers :
        /\ last_return[w] = "false"
        /\ total_processed = 1
        /\ faults = 0

\* C14: when the first process() call on a fresh row (retry_count 0, no
\* error) returns false, the row has error_message set and retry_count =
\* max_retries + 1 = 4, whatever the stage and the kind of failure.
TerminalFailureRecorded ==
    [][\A w \in Workers :
          (ReturnsFalse(w) /\ status[cur[w]].started_at = {StageOf(w)}
             /\ total_processed = 0) =>
              /\ status'[cur[w]].error_message
              /\ status'[cur[w]].retry_count = WorkerMaxRetries + 1]_vars

\* C15: whenever process() returns false, the flag of its stage is false in
\* the committed row of the episode.
FalseLeavesFlagFalse ==
    [][\A w \in Workers :
          ReturnsFalse(w) => ~Flag(status'[cur[w]], StageOf(w))]_vars

FailedOutNotRequeued ==
    [][\A e \in Episodes : \A s \in Stages :
          QCount(queues'[s], e) > QCount(queues[s], e) =>
              ~(/\ s \in status[e].started_at
                /\ \E w \in Workers :
                      StageOf(w) = s /\ last_return[w] = "false")]_vars

\* C18: every failed attempt of process(), raised or reported, sets
\* error_message and adds exactly one to retry_count.
FailureRecorded ==
    [][\A w \in Workers :
          (/\ pc[w] = "exec"
           /\ \/ pc'[w] = "backoff"
              \/ retries'[w] = retries[w] + 1
              \/ ReturnsFalse(w)) =>
              /\ status'[cur[w]].error_message
              /\ status'[cur[w]].retry_count
                    = status[cur[w]].retry_count + 1]_vars

\* C19: after failed attempt number k (from 0) the worker sleeps
\* retry_delay * 2^k = 5, 10, 20 seconds before the next attempt, no sleep
\* follows the last attempt, and no next attempt starts without the sleep.
BackoffBetweenAttempts ==
    [][\A w \in Workers :
          /\ pc'[w] = "backoff" =>
                /\ retries'[w] < WorkerMaxRetries
                /\ delay'[w] = 5 * 2 ^ retries'[w]
          /\ (pc'[w] = "exec" /\ retries'[w] = retries[w] + 1) =>
                pc[w] = "backoff"]_vars

UnmetReturnsAtOnce ==
    [][\A w \in Workers :
          (/\ pc[w] = "exec"
           /\ ~Precondition(status[cur[w]], StageOf(w))
           /\ grants'[rate_limiter[w]] # grants[rate_limiter[w]]) =>
              /\ retries[w] = 0
              /\ last_return'[w] = "false"
              /\ status' = status]_vars

\* The id names no Episode of the store, or an Episode without
\* ProcessingStatus.
Missing(e) == e \notin episodes \/ e \notin DOMAIN status

\* C22: a process() call for an id whose Episode or ProcessingStatus does
\* not exist returns false in the step of the call: no token is taken from
\* any limiter, the action is never entered for such an id, and the store
\* is as it was.
FailsFast ==
    [][\A w \in Workers :
          /\ (/\ pc[w] = "init"
              /\ Missing(last_call'[w])
              /\ \/ last_call'[w] # last_call[w]
                 \/ last_return'[w] # last_return[w]
                 \/ pc'[w] # pc[w]) =>
                 /\ last_return'[w] = "false"
                 /\ pc'[w] = "init"
                 /\ status' = status
                 /\ limiters' = limiters
                 /\ grants' = grants
                 /\ faults' = faults
          /\ pc'[w] \in InProcess => ~Missing(cur'[w])]_vars

\* C22, its case: a worker whose earlier calls took tokens was called for
\* an Episode without ProcessingStatus, and the call returned false.
MissingReturnedFalse ==
    \E w \in Workers :
        /\ last_call[w] \in episodes \ DOMAIN status
        /\ last_return[w] = "false"
        /\ pc[w] = "init"
        /\ grants[rate_limiter[w]] # <<>>

\* C23: every process() call that exhausted its retries and returned false
\* raises the failed_tasks count get_status() reports by one.
TerminalFailureSurfaced ==
    [][\A w \in Workers :
          (ReturnsFalse(w) /\ retries[w] = WorkerMaxRetries) =>
              get_status'.failed_tasks = get_status.failed_tasks + 1]_vars

\* C25: get_all() holds every gauge and every counter under its name with
\* its current value, and the uptime under 'uptime'.
SnapshotComplete ==
    /\ \A n \in DOMAIN _metrics :
          n \in DOMAIN get_all /\ get_all[n] = _metrics[n]
    /\ \A n \in DOMAIN _counters :
          n \in DOMAIN get_all /\ get_all[n] = _counters[n]
    /\ "uptime" \in DOMAIN get_all
    /\ get_all["uptime"] = mono - _start_time

\* C24: the workers of the manager run under its configuration: a process()
\* call makes at most config.max_retries + 1 attempts and returns false
\* right after attempt number config.max_retries + 1, and the sleep after
\* failed attempt k is config.retry_delay * 2^k.
ConfigGoverns ==
    [][\A w \in Workers :
          /\ pc'[w] \in InProcess => retries'[w] <= config.max_retries
          /\ ReturnsFalse(w) => retries[w] = config.max_retries
          /\ pc'[w] = "backoff" =>
                delay'[w] = config.retry_delay * 2 ^ retries[w]]_vars

\* C26: a queued entry leaves its queue only by the pop of a worker of the
\* stage, which takes the entry with the smallest (priority, episode_id) of
\* the queue and hands its id to the worker; every other entry stays queued
\* with the score it was put with, whatever the hour and the retry_count
\* have become.
DequeuesSmallestAsScored ==
    [][\A s \in Stages : \A x \in BagToSet(queues[s]) :
          \/ CopiesIn(x, queues'[s]) >= CopiesIn(x, queues[s])
          \/ /\ CopiesIn(x, queues'[s]) = CopiesIn(x, queues[s]) - 1
             /\ \A y \in BagToSet(queues[s]) : x = y \/ TupleLess(x, y)
             /\ \E w \in Workers :
                   /\ StageOf(w) = s
                   /\ pc[w] = "waiting"
                   /\ pc'[w] = "exec"
                   /\ cur'[w] = x[2]]_vars

\* C26, its case: a worker has popped an entry while another entry is still
\* queued with the score of hour 0 and retry_count 0, although a later hour
\* was read since and the retry_count of its episode has grown.
StaleScoreQueued ==
    \E w \in Workers : \E x \in BagToSet(queues[StageOf(w)]) :
        /\ pc[w] = "exec"
        /\ x[1] = PublishAge(x[2])
        /\ clock > 0
        /\ status[x[2]].retry_count > 0

\* C27: a worker loop adds the id it popped to the active set of its stage,
\* the id stays there while process() runs, and when process() has ended
\* the loop removes the id and acknowledges the item (task_done), whatever
\* the other workers of the stage do.
AcknowledgedOnce ==
    [][\A w \in Workers :
          /\ pc'[w] \in InProcess => cur'[w] \in active'[StageOf(w)]
          /\ (pc[w] \in InProcess /\ pc'[w] \notin InProcess) =>
                /\ cur[w] \in active[StageOf(w)]
                /\ cur[w] \notin active'[StageOf(w)]
                /\ unfinished'[StageOf(w)] = unfinished[StageOf(w)] - 1]_vars

\* C28: a queue-population pass leaves every ProcessingStatus as it was and
\* changes nothing of the manager but the stage queues; a row changes only
\* in a step of a worker that is entering or inside process() for it.
PassLeavesStatus ==
    [][/\ (\/ \E s \in Stages : unfinished'[s] > unfinished[s]
           \/ clock' # clock
           \/ pass_history' # pass_history) =>
              /\ status' = status
              /\ active' = active
              /\ total_processed' = total_processed
              /\ failed_tasks' = failed_tasks
              /\ is_running' = is_running
       /\ \A e \in Episodes :
             status'[e] # status[e] =>
                 \E w \in Workers :
                     /\ cur'[w] = e \/ cur[w] = e
                     /\ \/ pc[w] = "waiting" /\ pc'[w] = "exec"
                        \/ pc[w] = "exec"]_vars

\* C28, its case: a pass enqueued for transcription an episode whose row
\* carries the error and the retries of its failed download attempts, and
\* the row carries them still.
PassKeptFailureRecord ==
    \E e \in Episodes :
        /\ e \in QIds(transcribe_queue)
        /\ status[e].is_downloaded
        /\ status[e].error_message
        /\ status[e].retry_count > 0

\* C29: a pass of the population loop or of the metrics loop that raised
\* does not end its loop: a loop ends only once the manager is no longer
\* running, and while the manager runs a failed pass is followed by the
\* next pass of the loop until one completes.
PassErrorsContained ==
    /\ [][/\ (mq_pc = "loop" /\ mq_pc' # "loop") => ~is_running
          /\ (cm_pc = "loop" /\ cm_pc' # "loop") => ~is_running]_vars
    /\ \A l \in Loops :
          (pass_history[l] = "failed")
              ~> (pass_history[l] = "recovered" \/ ~is_running)

\* C29, its case: passes of both loops raised, later passes of both loops
\* completed, and the manager is still running.
BothLoopsRecovered ==
    /\ is_running
    /\ \A l \in Loops : pass_history[l] = "recovered"
    /\ faults = 0
    /\ \E s \in Stages : queues[s] # EmptyBag

\* C30: for every episode retry_count never decreases, and it changes only
\* in a failed attempt of process(): by one, in a step of a worker that is
\* executing that episode and goes on to its backoff or returns false.  A
\* step in which process() returns true, a population pass, start() and
\* stop() leave every retry_count as it was.
RetryCountOnlyOnFailure ==
    [][/\ \A e \in Episodes :
             /\ status'[e].retry_count >= status[e].retry_count
             /\ status'[e].retry_count # status[e].retry_count =>
                   /\ status'[e].retry_count = status[e].retry_count + 1
                   /\ status'[e].error_message
                   /\ \E w \in Workers :
                         /\ pc[w] = "exec"
                         /\ cur[w] = e
                         /\ pc'[w] = "backoff" \/ last_return'[w] = "false"
       /\ \/ \E w \in Workers :
                last_return[w] # "true" /\ last_return'[w] = "true"
          \/ \E s \in Stages :
                BagCardinality(queues'[s]) > BagCardinality(queues[s])
          \/ is_running' # is_running
          \/ stop_pc' # stop_pc
          => \A e \in Episodes :
                status'[e].retry_count = status[e].retry_count]_vars

\* C30, its case: an attempt on an episode raised and a later attempt on it
\* succeeded; the row is downloaded and still counts the failure.
SucceededAfterFailure ==
    \E w \in Workers :
        /\ StageOf(w) = "download"
        /\ last_return[w] = "true"
        /\ \E e \in Episodes :
              /\ status[e].is_downloaded
              /\ "download" \in status[e].completed_at
              /\ status[e].retry_count > 0

\* The gauges of a collection pass that the state alone determines.
StateGauges == DOMAIN Gauges \ {"processing_rate"}

\* C31: when stop() has returned, the collector holds the queue sizes, the
\* active counts, total_processed and the number of failed tasks of the
\* drained state.
FinalMetricsCollected ==
    stop_pc = "returned" =>
        \A n \in StateGauges : n \in DOMAIN _metrics /\ _metrics[n] = Gauges[n]

\* C32: a stop() that was called eventually returns, given that every
\* stage action in flight ends: every queued item is popped and
\* acknowledged after the running flag is cleared.
StopEventuallyReturns ==
    (stop_pc # "none") ~> (stop_pc = "returned")

\* C33: once stop() has cleared the running flag, every task that start()
\* created ends: each worker loop, the population loop and the metrics
\* loop; no worker stays blocked on an empty queue.
TasksEventuallyEnd ==
    (start_time /\ ~is_running)
        ~> /\ \A w \in Workers : pc[w] = "exited"
           /\ mq_pc = "exited"
           /\ cm_pc = "exited"

\* C34: whenever a worker is inside process() for an episode, the episode
\* is a member of the active set of the worker's stage.
InFlightIsActive ==
    \A w \in Workers : pc[w] \in InProcess => cur[w] \in active[StageOf(w)]

\* Episode e has an entry on the queue of stage s.
QueuedFor(e, s) == \E x \in BagToSet(queues[s]) : x[2] = e

\* C35: an episode whose download (transcription) has succeeded is later
\* put on the transcribe (analyze) queue by a pass of the running manager,
\* whatever retry_count the failed attempts of the completed stage left.
NextStageScheduled ==
    \A e \in 1..RetryEpisodes, s \in {"download", "transcribe"} :
        (s \in status[e].completed_at /\ ~Flag(status[e], NextJoin(s)))
        ~> (QueuedFor(e, NextJoin(s)) \/ Flag(status[e], NextJoin(s))
               \/ ~is_running)

\* Episode e is eligible for stage s: the stage is not done, its
\* precondition is met and retry_count is below max_retries.
Eligible(e, s) ==
    /\ ~Flag(status[e], s)
    /\ Precondition(status[e], s)
    /\ status[e].retry_count < config.max_retries

\* The oldest episode of the store, the first and the last of the others
\* in the order of the query.
OldestFirstLast == {1, 2, BatchLimit + 1}

\* C36: while the manager runs, an episode that is eligible for a stage is
\* eventually put on the queue of that stage by a population pass, however
\* many other eligible episodes there are and whether or not those keep
\* failing; stated for the oldest episode and the two ends of the batch.
EligibleEventuallyQueued ==
    \A e \in OldestFirstLast :
        (is_running /\ \E s \in Stages : Eligible(e, s))
            ~> (\E s \in Stages :
                   Eligible(e, s) /\ (QueuedFor(e, s) \/ e \in active[s]))

\* A step in which the process() call of worker w returns true.
ReturnsTrue(w) == last_return[w] # "true" /\ last_return'[w] = "true"

\* C37: total_processed increases, by one, exactly in the steps in which a
\* process() call returns true; a call that returns false is not counted.
CountsSuccessesOnly ==
    [][/\ total_processed' \in {total_processed, total_processed + 1}
       /\ total_processed' = total_processed + 1
             <=> \E w \in Workers : ReturnsTrue(w)]_vars

\* C38: in every state of every RateLimiter 0 <= tokens <= max_calls (the
\* field tokens of the model holds tokens * time_window).
TokensInRange ==
    \A l \in DOMAIN limiters :
        /\ 0 <= limiters[l].tokens
        /\ limiters[l].tokens <= limiters[l].max_calls * limiters[l].time_window

\* C38, its case: after an acquisition and a refill of a second, two
\* callers wait on a limiter that holds a fraction of a token.
TwoWaitOnFraction ==
    \E l \in DOMAIN limiters :
        /\ grants[l] # <<>>
        /\ limiters[l].last_update > 0
        /\ limiters[l].tokens > 0
        /\ limiters[l].tokens < limiters[l].time_window
        /\ \E c, d \in DOMAIN rl_pc :
              /\ c # d
              /\ rate_limiter[c] = l /\ rl_pc[c] = "sleeping"
              /\ rate_limiter[d] = l /\ rl_pc[d] = "sleeping"

\* C39: with time advancing, every acquire() call on a limiter that
\* several callers poll eventually returns.
EveryAcquireReturns ==
    \A c \in 1..SharedCallers : (rl_pc[c] = "sleeping") ~> (rl_pc[c] = "idle")

\* C40: get and get_all agree: for every name in get_all() other than the
\* computed uptime, get(name) is get_all()[name], and get(name, default)
\* is the default exactly for the names that get_all() does not hold.
GetAgreesWithGetAll ==
    \A name \in MetricNames \ {"uptime"} :
        /\ name \in DOMAIN get_all => get(name, None) = get_all[name]
        /\ name \notin DOMAIN get_all <=> get(name, None) = None
        /\ name \notin DOMAIN get_all =>
              \A default \in 0..MaxValue : get(name, default) = default
====
